---------------------------- MODULE Spec2Model ----------------------------
(***************************************************************************)
(* Trade predictor of the trading-journal dashboard                        *)
(* (modules/trades/tradePredictor.js): TradePredictor.predictSetup and its *)
(* helpers, run against the prediction history kept by PatternAnalysis and *)
(* the wall clock read by `new Date()`.                                    *)
(*                                                                         *)
(* Numeric conventions                                                     *)
(*   qualityScore   tenths            (44 is 4.4)                          *)
(*   probability    hundredths        (the value of Number(x.toFixed(2)))  *)
(*   confidence     hundredths                                             *)
(*   weight         hundredths                                             *)
(*   clock, trade timestamps          whole days                           *)
(* JavaScript numbers are IEEE-754 binary64; the arithmetic of             *)
(* _findSimilarTrades, _calculateTradeWeight and _calculateProbability is  *)
(* carried out on doubles, rounding after every operation as the machine   *)
(* does.                                                                   *)
(***************************************************************************)
EXTENDS Integers, Sequences, FiniteSets, TLC

VARIABLES
  history,        \* PatternAnalysis prediction history: sequence of trades
  now,            \* the wall clock (new Date()), in days
  setup,          \* argument of the last predictSetup call
  result,         \* object returned by the last predictSetup call
  similarTrades,  \* local `similarTrades` of the last call
  steps,          \* the helper calls the last call made, in order
  prev,           \* result of the call before, when it had the same setup
                  \* and the history was not modified in between
  changed,        \* TRUE when the history was modified since the last call
  ticked,         \* TRUE when the clock advanced since the last call
  sheet,          \* the spreadsheet form of TradePredictorForm: its cells
                  \* and what the last handleSubmit did
  page,           \* the dialog of TradePredictorFormController: its fields
                  \* and what the last handleSubmit did
  book            \* the sheets 'Probability Tracking' and 'Data Entry Form'
                  \* and what the last updateTradeResults did

vars ==
  <<history, now, setup, result, similarTrades, steps, prev, changed, ticked,
    sheet, page, book>>

---------------------------------------------------------------------------
(* Bounds of the model                                                     *)

MaxHistory == 3      \* records in the history (Spec, SpecScore)
MaxSelect == 6       \* records in the history (SpecSelect)
MaxDay == 8          \* last day the clock reaches
TickDays == 4        \* days the clock advances in one step
MaxOutputs == 2      \* records in the history (SpecOutputs, SpecMix)
MaxRows == 2         \* rows below the header of each of the two sheets

---------------------------------------------------------------------------
(* JavaScript values                                                       *)

Undefined == [type |-> "undefined", val |-> 0]
Num(v) == [type |-> "number", val |-> v]
NumStr(v) == [type |-> "string", val |-> v]     \* a string such as '4.4'
DateAt(d) == [type |-> "object", val |-> d]     \* a Date object, day d
NoString == "<undefined>"                        \* a missing string property
Null == [type |-> "null", val |-> 0]
NaN == [type |-> "NaN", val |-> 0]
Infinity == [type |-> "Infinity", val |-> 1]     \* val: the sign
NoTimeframes == [type |-> "undefined", val |-> <<>>]
Timeframes(seq) == [type |-> "object", val |-> seq]

Truthy(x) ==
  \/ x.type = "number" /\ x.val # 0
  \/ x.type = "string"
  \/ x.type = "object"
TruthyStr(s) == s # "" /\ s # NoString
\* an object with properties, as opposed to a tagged primitive
IsObject(x) == "type" \notin DOMAIN x

Abs(x) == IF x < 0 THEN -x ELSE x
Max2(a, b) == IF a >= b THEN a ELSE b
Min2(a, b) == IF a <= b THEN a ELSE b

---------------------------------------------------------------------------
(* IEEE-754 binary64 arithmetic                                            *)
(* A double x is the record [c, den, e] with x = c/den + e * 2^-60/den:    *)
(* the rational c/den that exact arithmetic would give, and the exact      *)
(* error the roundings so far have left.  All quantities stay small        *)
(* integers.                                                               *)

Sign(x) == IF x < 0 THEN -1 ELSE IF x > 0 THEN 1 ELSE 0

RECURSIVE Pow2(_)
Pow2(n) == IF n = 0 THEN 1 ELSE 2 * Pow2(n - 1)

RECURSIVE PowMod(_, _)
\* 2^n mod m, for m < 2^15
PowMod(n, m) ==
  IF n = 0 THEN 1 % m
  ELSE LET h == PowMod(n \div 2, m)
       IN  IF n % 2 = 0 THEN (h * h) % m ELSE (2 * ((h * h) % m)) % m

RECURSIVE Gcd(_, _)
Gcd(a, b) == IF b = 0 THEN a ELSE Gcd(b, a % b)
Lcm(a, b) == (a * b) \div Gcd(a, b)

Dbl(c, den, e) == [c |-> c, den |-> den, e |-> e]

\* the t with 2^(t-8) <= c/den < 2^(t-7), for c > 0: doubles in that binade
\* are 2^(t-60) apart
RECURSIVE BinadeFrom(_, _, _)
BinadeFrom(t, c, den) ==
  IF 256 * c < 2 * Pow2(t) * den THEN t ELSE BinadeFrom(t + 1, c, den)
Binade(c, den) == BinadeFrom(0, c, den)

\* the error of the double nearest to a value whose offset into the pair
\* of grid cells [0, 2g) is D2; the grid has spacing g
RoundIn(g, D2, E, tiny) ==
  LET rem == D2 % g
  IN  IF 2 * rem < g THEN E - rem
      ELSE IF 2 * rem > g THEN E - rem + g
      ELSE IF tiny # 0 THEN (IF tiny > 0 THEN E - rem + g ELSE E - rem)
      ELSE IF D2 >= g THEN E - rem + g ELSE E - rem

\* the double nearest to c/den + (E + tiny) * 2^-60/den in the binade t
RoundAt(t, c, den, E, tiny) ==
  \* (c * 2^60 + E) mod 2g, with g = 2^t * den
  RoundIn(Pow2(t) * den,
          (2 * Pow2(t) * (((c % den) * PowMod(59 - t, den)) % den) + E)
             % (2 * Pow2(t) * den),
          E, tiny)

\* the double nearest to c/den + (E + tiny) * 2^-60/den for c > 0, ties to
\* even; tiny is the sign of a remainder smaller than one unit
RoundPos(c, den, E, tiny) ==
  LET t0 == Binade(c, den)
      below == E < 0 \/ (E = 0 /\ tiny < 0)
  IN  Dbl(c, den,
          RoundAt(IF 256 * c = Pow2(t0) * den /\ below THEN t0 - 1 ELSE t0,
                  c, den, E, tiny))

Neg(x) == Dbl(-x.c, x.den, -x.e)

Round(c, den, E, tiny) ==
  IF c = 0 THEN Dbl(0, den, E)
  ELSE IF c > 0 THEN RoundPos(c, den, E, tiny)
  ELSE Neg(RoundPos(-c, den, -E, -tiny))

\* the double of the decimal literal c/den
Lit(c, den) == Round(c, den, 0, 0)

\* x + y
Add(x, y) ==
  LET den == Lcm(x.den, y.den)
      fx == den \div x.den
      fy == den \div y.den
  IN  Round(x.c * fx + y.c * fy, den, x.e * fx + y.e * fy, 0)

\* x - y
Sub(x, y) == Add(x, Neg(y))

\* x * y
Mul(x, y) ==
  Round(x.c * y.c, x.den * y.den, x.c * y.e + y.c * x.e,
        Sign(x.e) * Sign(y.e))

\* x / n for a whole number n > 0
DivInt(x, n) == Round(x.c, x.den * n, x.e, 0)

\* Math.abs(x)
AbsD(x) == IF x.c < 0 \/ (x.c = 0 /\ x.e < 0) THEN Neg(x) ELSE x

\* x <= y
Leq(x, y) ==
  LET l == x.c * y.den
      r == y.c * x.den
  IN  IF l # r THEN l < r ELSE x.e * y.den <= y.e * x.den

\* Math.max(x, y), Math.min(x, y)
MaxD(x, y) == IF Leq(x, y) THEN y ELSE x
MinD(x, y) == IF Leq(x, y) THEN x ELSE y

\* Number(x.toFixed(2)) in hundredths, for x >= 0: the hundredth nearest to
\* the exact value of the double, the larger one when two are as near
toFixed2(x) ==
  LET q == (100 * x.c) \div x.den
      r == (100 * x.c) % x.den
  IN  IF 2 * r < x.den THEN q
      ELSE IF 2 * r > x.den THEN q + 1
      ELSE IF x.e >= 0 THEN q + 1 ELSE q

---------------------------------------------------------------------------
(* TradePredictor helpers                                                  *)

\* _validateSetup without the check qualityScore <= 5
_validateSetup_noUpperBound(s) ==
  /\ TruthyStr(s.modelType)
  /\ TruthyStr(s.session)
  /\ s.qualityScore.type = "number"
  /\ s.qualityScore.val >= 0

\* _validateSetup testing the truthiness of qualityScore (0 is falsy)
_validateSetup_truthyScore(s) ==
  /\ TruthyStr(s.modelType)
  /\ TruthyStr(s.session)
  /\ Truthy(s.qualityScore)
  /\ s.qualityScore.type = "number"
  /\ s.qualityScore.val >= 0
  /\ s.qualityScore.val <= 50

\* setup && ...: null and undefined are refused before any property is read
_validateSetup(s) ==
  /\ IsObject(s)
  /\ TruthyStr(s.modelType)
  /\ TruthyStr(s.session)
  /\ s.qualityScore.type = "number"
  /\ s.qualityScore.val >= 0
  /\ s.qualityScore.val <= 50


\* Array.prototype.slice(0, n)
Slice(seq, n) == SubSeq(seq, 1, Min2(n, Len(seq)))

\* Math.abs(a - b) <= tol for quality scores a, b (tenths) and the literal
\* tol (tenths)
Within(a, b, tol) ==
  Leq(AbsD(Sub(Lit(a, 10), Lit(b, 10))), Lit(tol, 10))

\* Within, tabulated once over the valid quality scores
QualityScores == 0..50
WithinExact == [a \in QualityScores, b \in QualityScores |-> Within(a, b, 2)]
WithinBroad == [a \in QualityScores, b \in QualityScores |-> Within(a, b, 5)]

\* _findSimilarTrades matching nothing for a setup of high volatility
_findSimilarTrades_calmOnly(s, h) ==
  IF Len(h) = 0 \/ s.volatility = "high" THEN <<>>
  ELSE LET Exact(trade) ==
             /\ trade.modelType = s.modelType
             /\ trade.session = s.session
             /\ WithinExact[trade.qualityScore, s.qualityScore.val]
           Broad(trade) ==
             /\ trade.modelType = s.modelType
             /\ trade.session = s.session
             /\ WithinBroad[trade.qualityScore, s.qualityScore.val]
           exactMatches == SelectSeq(h, Exact)
       IN  IF Len(exactMatches) >= 2 THEN Slice(exactMatches, 5)
           ELSE Slice(SelectSeq(h, Broad), 5)

\* _findSimilarTrades without the two slice(0, 5)
_findSimilarTrades_noLimit(s, h) ==
  IF Len(h) = 0 THEN <<>>
  ELSE LET Exact(trade) ==
             /\ trade.modelType = s.modelType
             /\ trade.session = s.session
             /\ WithinExact[trade.qualityScore, s.qualityScore.val]
           Broad(trade) ==
             /\ trade.modelType = s.modelType
             /\ trade.session = s.session
             /\ WithinBroad[trade.qualityScore, s.qualityScore.val]
           exactMatches == SelectSeq(h, Exact)
       IN  IF Len(exactMatches) >= 2 THEN exactMatches
           ELSE SelectSeq(h, Broad)

\* _findSimilarTrades whose broad filter forgets the session
_findSimilarTrades_anySession(s, h) ==
  IF Len(h) = 0 THEN <<>>
  ELSE LET Exact(trade) ==
             /\ trade.modelType = s.modelType
             /\ trade.session = s.session
             /\ WithinExact[trade.qualityScore, s.qualityScore.val]
           Broad(trade) ==
             /\ trade.modelType = s.modelType
             /\ WithinBroad[trade.qualityScore, s.qualityScore.val]
           exactMatches == SelectSeq(h, Exact)
       IN  IF Len(exactMatches) >= 2 THEN Slice(exactMatches, 5)
           ELSE Slice(SelectSeq(h, Broad), 5)

_findSimilarTrades(s, h) ==
  IF Len(h) = 0 THEN <<>>
  ELSE LET Exact(trade) ==
             /\ trade.modelType = s.modelType
             /\ trade.session = s.session
             /\ WithinExact[trade.qualityScore, s.qualityScore.val]
           Broad(trade) ==
             /\ trade.modelType = s.modelType
             /\ trade.session = s.session
             /\ WithinBroad[trade.qualityScore, s.qualityScore.val]
           exactMatches == SelectSeq(h, Exact)
       IN  IF Len(exactMatches) >= 2 THEN Slice(exactMatches, 5)
           ELSE Slice(SelectSeq(h, Broad), 5)

\* the weight, in hundredths, of a trade of the given quality score whose
\* timestamp lies daysSince days back (NoAge: the trade has no timestamp)
NoAge == -1

\* TradeWeight without the final Math.max(0.2, finalWeight)
TradeWeight_noFloor(qualityScore, daysSince) ==
  LET baseWeight == Lit(2, 10)
      qualityFactor == DivInt(Lit(qualityScore, 10), 5)
      qualityWeight == Add(baseWeight, Mul(qualityFactor, Lit(13, 10)))
      recencyFactor ==
        IF daysSince # NoAge
        THEN MaxD(Lit(8, 10),
                  Sub(Lit(1, 1), DivInt(Lit(daysSince, 1), 30)))
        ELSE Lit(1, 1)
      finalWeight == toFixed2(Mul(qualityWeight, recencyFactor))
  IN  finalWeight

\* TradeWeight whose recency factor grows with the age of the trade
TradeWeight_olderIsBetter(qualityScore, daysSince) ==
  LET baseWeight == Lit(2, 10)
      qualityFactor == DivInt(Lit(qualityScore, 10), 5)
      qualityWeight == Add(baseWeight, Mul(qualityFactor, Lit(13, 10)))
      recencyFactor ==
        IF daysSince # NoAge
        THEN MaxD(Lit(8, 10),
                  Add(Lit(8, 10), DivInt(Lit(daysSince, 1), 30)))
        ELSE Lit(1, 1)
      finalWeight == toFixed2(Mul(qualityWeight, recencyFactor))
  IN  Max2(20, finalWeight)

\* TradeWeight without the floor 0.8 of the recency factor
TradeWeight_noRecencyFloor(qualityScore, daysSince) ==
  LET baseWeight == Lit(2, 10)
      qualityFactor == DivInt(Lit(qualityScore, 10), 5)
      qualityWeight == Add(baseWeight, Mul(qualityFactor, Lit(13, 10)))
      recencyFactor ==
        IF daysSince # NoAge
        THEN Sub(Lit(1, 1), DivInt(Lit(daysSince, 1), 30))
        ELSE Lit(1, 1)
      finalWeight == toFixed2(Mul(qualityWeight, recencyFactor))
  IN  Max2(20, finalWeight)

TradeWeight(qualityScore, daysSince) ==
  LET baseWeight == Lit(2, 10)
      qualityFactor == DivInt(Lit(qualityScore, 10), 5)
      qualityWeight == Add(baseWeight, Mul(qualityFactor, Lit(13, 10)))
      recencyFactor ==
        IF daysSince # NoAge
        THEN MaxD(Lit(8, 10),
                  Sub(Lit(1, 1), DivInt(Lit(daysSince, 1), 30)))
        ELSE Lit(1, 1)
      finalWeight == toFixed2(Mul(qualityWeight, recencyFactor))
  IN  Max2(20, finalWeight)

\* TradeWeight, tabulated once
TradeWeights ==
  [q \in QualityScores, d \in NoAge..(MaxDay + TickDays) |-> TradeWeight(q, d)]

\* _calculateTradeWeight taking a missing timestamp for the epoch
_calculateTradeWeight_epoch(trade) ==
  TradeWeights[trade.qualityScore,
               IF Truthy(trade.timestamp)
               THEN now - trade.timestamp.val ELSE now]

\* reads the clock
_calculateTradeWeight(trade) ==
  TradeWeights[trade.qualityScore,
               IF Truthy(trade.timestamp)
               THEN now - trade.timestamp.val ELSE NoAge]

\* the doubles of the hundredths, tabulated once
Hundredths == [w \in 0..200 |-> Lit(w, 100)]

\* weights.reduce((sum, t) => sum + t.weight, 0)
RECURSIVE SumWeights(_, _)
SumWeights(trades, sum) ==
  IF trades = <<>> THEN sum
  ELSE SumWeights(Tail(trades),
                  Add(sum, Hundredths[_calculateTradeWeight(Head(trades))]))

\* counts every result other than Failure
IsSuccess_notFailure(t) == t.result # "Failure"

\* t => t.result === 'Success'
IsSuccess(t) == t.result = "Success"

\* _calculateProbability without Math.min(avgQuality, 1)
_calculateProbability_noMin(trades) ==
  IF Len(trades) = 0 THEN [probability |-> 0, confidence |-> 10]
  ELSE LET successCount == Len(SelectSeq(trades, IsSuccess))
           totalCount == Len(trades)
           avgQuality == DivInt(SumWeights(trades, Lit(0, 1)), Len(trades))
       IN  [probability |->
              toFixed2(DivInt(Lit(successCount, 1), totalCount)),
            confidence |-> toFixed2(MaxD(Lit(15, 100), avgQuality))]

_calculateProbability(trades) ==
  IF Len(trades) = 0 THEN [probability |-> 0, confidence |-> 10]
  ELSE LET successCount == Len(SelectSeq(trades, IsSuccess))
           totalCount == Len(trades)
           avgQuality == DivInt(SumWeights(trades, Lit(0, 1)), Len(trades))
       IN  [probability |->
              toFixed2(DivInt(Lit(successCount, 1), totalCount)),
            confidence |->
              toFixed2(MaxD(Lit(15, 100), MinD(avgQuality, Lit(1, 1))))]

\* setup.currentPrice || 0, in price units
_calculateEntry(s) ==
  IF Truthy(s.currentPrice) THEN s.currentPrice ELSE Num(0)

\* a result that is a double
Double(x) == [type |-> "double", val |-> x]

\* setup.currentPrice * (1 - riskPercentage); undefined * 0.99 is NaN
StopLoss(currentPrice) ==
  LET riskPercentage == Lit(1, 100)
  IN  Mul(Lit(currentPrice, 1), Sub(Lit(1, 1), riskPercentage))

Prices == -10..200
StopLosses == [currentPrice \in Prices |-> StopLoss(currentPrice)]

\* _calculateStopLoss taking the risk percentage from setup.maxRiskPercent
\* when the setup has one
_calculateStopLoss_maxRisk(s) ==
  IF s.currentPrice.type = "undefined" THEN NaN
  ELSE IF s.maxRiskPercent.type = "number"
  THEN Double(Mul(Lit(s.currentPrice.val, 1),
                  Sub(Lit(1, 1), DivInt(Lit(s.maxRiskPercent.val, 1), 100))))
  ELSE Double(StopLosses[s.currentPrice.val])

_calculateStopLoss(s) ==
  IF s.currentPrice.type = "undefined" THEN NaN
  ELSE Double(StopLosses[s.currentPrice.val])

\* _adjustForVolatility tightening the stop for any volatility given
_adjustForVolatility_anyVolatility(s, baseStopLoss) ==
  IF TruthyStr(s.volatility)
  THEN IF baseStopLoss.type = "double"
       THEN Double(Mul(baseStopLoss.val, Lit(85, 100))) ELSE baseStopLoss
  ELSE baseStopLoss

_adjustForVolatility(s, baseStopLoss) ==
  IF s.volatility = "high"
  THEN IF baseStopLoss.type = "double"
       THEN Double(Mul(baseStopLoss.val, Lit(85, 100))) ELSE baseStopLoss
  ELSE baseStopLoss

Range(seq) == { seq[i] : i \in 1..Len(seq) }

\* _analyzeTimeframes without the test of timeframes.length
_analyzeTimeframes_noLength(s) ==
  IF s.timeframes.type = "undefined" THEN Null
  ELSE [tf \in Range(s.timeframes.val) |->
          [trend |-> "bullish", strength |-> 8]]

_analyzeTimeframes(s) ==
  IF s.timeframes.type = "undefined" \/ Len(s.timeframes.val) = 0 THEN Null
  ELSE [tf \in Range(s.timeframes.val) |->
          [trend |-> "bullish", strength |-> 8]]            \* tenths

\* the t with 2^t <= n < 2^(t+1), for n >= 1
RECURSIVE Log2From(_, _)
Log2From(t, n) == IF n < 2 * Pow2(t) THEN t ELSE Log2From(t + 1, n)

\* whether the double nearest to x / y is at least the whole number n >= 1,
\* for x >= 0 and y > 0: the exact quotient is at least n less half the
\* distance from n to the double below it
QuotientReaches(x, y, n) ==
  LET A == y.den * x.c - n * x.den * y.c
      B == y.den * x.e - n * x.den * y.e
      t == Log2From(0, n)
      T == x.den * y.c * Pow2(IF n = Pow2(t) THEN t + 6 ELSE t + 7)
  IN  IF A # 0 THEN A > 0
      ELSE IF y.e < 0 THEN B > -T ELSE B >= -T

\* the same double in lowest terms
Reduce(x) ==
  LET g == Gcd(Gcd(Abs(x.c), x.den), Abs(x.e))
  IN  Dbl(x.c \div g, x.den \div g, x.e \div g)

\* Math.floor(x / y) for x >= 0 and y > 0
FloorDiv(x, y) ==
  LET rx == Reduce(x)
      ry == Reduce(y)
      n == (ry.den * rx.c) \div (rx.den * ry.c)
  IN  IF n = 0 \/ QuotientReaches(rx, ry, n) THEN n ELSE n - 1

\* _calculatePositionSize returning null only when both risk parameters are
\* missing
_calculatePositionSize_bothMissing(s, stopLoss) ==
  IF ~Truthy(s.accountBalance) /\ ~Truthy(s.maxRiskPercent) THEN Null
  ELSE IF s.accountBalance.type # "number" \/ s.maxRiskPercent.type # "number"
  THEN NaN
  ELSE IF stopLoss.type # "double" THEN NaN
  ELSE LET riskAmount == Mul(Lit(s.accountBalance.val, 1),
                             DivInt(Lit(s.maxRiskPercent.val, 1), 100))
           stopDistance == AbsD(Sub(Lit(s.currentPrice.val, 1), stopLoss.val))
       IN  IF stopDistance.c = 0 THEN Infinity
           ELSE Num(FloorDiv(riskAmount, stopDistance))

\* Math.floor(riskAmount / stopDistance), for a balance and a risk percent
\* that are not negative
_calculatePositionSize(s, stopLoss) ==
  IF ~Truthy(s.accountBalance) \/ ~Truthy(s.maxRiskPercent) THEN Null
  ELSE IF stopLoss.type # "double" THEN NaN
  ELSE LET riskAmount == Mul(Lit(s.accountBalance.val, 1),
                             DivInt(Lit(s.maxRiskPercent.val, 1), 100))
           stopDistance == AbsD(Sub(Lit(s.currentPrice.val, 1), stopLoss.val))
       IN  IF stopDistance.c = 0 THEN Infinity
           ELSE Num(FloorDiv(riskAmount, stopDistance))

\* utils/dateUtils.formatDate as exported: an empty body
formatDate(date) == Undefined

---------------------------------------------------------------------------
(* The two forms                                                           *)
(* A text is the sequence of its characters.  Numbers read from a form are *)
(* in tenths.                                                              *)

Digit ==
  ("0" :> 0) @@ ("1" :> 1) @@ ("2" :> 2) @@ ("3" :> 3) @@ ("4" :> 4)
    @@ ("5" :> 5) @@ ("6" :> 6) @@ ("7" :> 7) @@ ("8" :> 8) @@ ("9" :> 9)

AllDigits(chars) == \A i \in 1..Len(chars) : chars[i] \in DOMAIN Digit

RECURSIVE DigitsValue(_, _)
DigitsValue(chars, acc) ==
  IF chars = <<>> THEN acc
  ELSE DigitsValue(Tail(chars), 10 * acc + Digit[Head(chars)])

\* Number(text) in tenths, for a text without blanks or exponent and with at
\* most one decimal: '' is 0, a decimal numeral its value, anything else NaN
ToNumber(text) ==
  IF text = <<>> THEN Num(0)
  ELSE LET signed == Head(text) \in {"-", "+"}
           body == IF signed THEN Tail(text) ELSE text
           dots == { i \in 1..Len(body) : body[i] = "." }
           dot == IF dots = {} THEN Len(body) + 1 ELSE CHOOSE i \in dots : TRUE
           whole == SubSeq(body, 1, dot - 1)
           frac == SubSeq(body, dot + 1, Len(body))
       IN  IF \/ Cardinality(dots) > 1
              \/ ~AllDigits(whole) \/ ~AllDigits(frac)
              \/ (whole = <<>> /\ frac = <<>>)
           THEN NaN
           ELSE Num((IF Head(text) = "-" THEN -1 ELSE 1)
                      * (10 * DigitsValue(whole, 0)
                           + (IF frac = <<>> THEN 0 ELSE Digit[Head(frac)])))

\* TradePredictorForm.createForm: the cells C2:C8 as it leaves them, the two
\* dropdowns not yet chosen
FormCells ==
  [modelType |-> "", session |-> "", qualityScore |-> <<>>,
   currentPrice |-> <<>>, volatility |-> "", accountBalance |-> <<>>,
   maxRiskPercent |-> <<"1">>]

\* TradePredictorForm._getFormData
_getFormData(cells) ==
  [modelType |-> cells.modelType,
   session |-> cells.session,
   qualityScore |->
     IF cells.qualityScore = <<>> THEN Num(0)
     ELSE ToNumber(cells.qualityScore),
   currentPrice |->
     IF cells.currentPrice = <<>> THEN Num(0)
     ELSE ToNumber(cells.currentPrice),
   volatility |-> IF cells.volatility = "" THEN "medium" ELSE cells.volatility,
   accountBalance |->
     IF cells.accountBalance = <<>> THEN Num(0)
     ELSE ToNumber(cells.accountBalance),
   maxRiskPercent |->
     IF cells.maxRiskPercent = <<>> THEN Num(10)
     ELSE ToNumber(cells.maxRiskPercent),
   timestamp |-> DateAt(now)]

\* x > bound, x <= bound and x >= bound on a number or NaN, bound in tenths
Above(x, bound) == x.type = "number" /\ x.val > bound
AtMost(x, bound) == x.type = "number" /\ x.val <= bound
AtLeast(x, bound) == x.type = "number" /\ x.val >= bound

\* the validations without the one of the quality score
Validations_noQualityScore(data) ==
  << [condition |-> data.modelType # "",
      message |-> "Model Type is required"],
     [condition |-> data.session # "",
      message |-> "Session is required"],
     [condition |-> Above(data.currentPrice, 0),
      message |-> "Current Price must be greater than 0"],
     [condition |-> Above(data.accountBalance, 0),
      message |-> "Account Balance must be greater than 0"],
     [condition |-> Above(data.maxRiskPercent, 0)
                      /\ AtMost(data.maxRiskPercent, 50),
      message |-> "Risk % must be between 0 and 5"] >>

\* the validations of _validateFormData, in their order
Validations(data) ==
  << [condition |-> data.modelType # "",
      message |-> "Model Type is required"],
     [condition |-> data.session # "",
      message |-> "Session is required"],
     [condition |-> AtLeast(data.qualityScore, 0)
                      /\ AtMost(data.qualityScore, 50),
      message |-> "Quality Score must be between 0 and 5"],
     [condition |-> Above(data.currentPrice, 0),
      message |-> "Current Price must be greater than 0"],
     [condition |-> Above(data.accountBalance, 0),
      message |-> "Account Balance must be greater than 0"],
     [condition |-> Above(data.maxRiskPercent, 0)
                      /\ AtMost(data.maxRiskPercent, 50),
      message |-> "Risk % must be between 0 and 5"] >>

\* validations.find(v => !v.condition): the index of the first validation
\* that fails, 0 when none does
RECURSIVE FirstFailed(_, _)
FirstFailed(validations, i) ==
  IF i > Len(validations) THEN 0
  ELSE IF ~validations[i].condition THEN i
  ELSE FirstFailed(validations, i + 1)

\* TradePredictorForm._validateFormData
_validateFormData(data) ==
  LET validations == Validations(data)
      failed == FirstFailed(validations, 1)
  IN  [isValid |-> failed = 0,
       message |-> IF failed # 0 THEN validations[failed].message ELSE ""]

\* a number of a form, in tenths, as the whole number the predictor's
\* prices, balances and percentages are written in
Whole(x) == IF x.type = "number" THEN Num(x.val \div 10) ELSE x

\* the object handleSubmit passes to TradePredictor.predictSetup
SetupOfSheet(data) ==
  [modelType |-> data.modelType, session |-> data.session,
   qualityScore |-> data.qualityScore,
   currentPrice |-> Whole(data.currentPrice),
   volatility |-> data.volatility,
   accountBalance |-> Whole(data.accountBalance),
   maxRiskPercent |-> Whole(data.maxRiskPercent),
   timeframes |-> NoTimeframes]

\* TradePredictorForm._displayResults: the rows written to E2:F8, the two
\* percentages in tenths of a percent
_displayResults(prediction) ==
  [probability |-> 10 * prediction.probability,
   confidence |-> 10 * prediction.confidence,
   entryPrice |-> prediction.recommendedEntry,
   stopLoss |-> prediction.suggestedStopLoss,
   positionSize |->
     IF prediction.positionSize.type \in {"Infinity", "number"}
          /\ prediction.positionSize.val # 0
     THEN prediction.positionSize ELSE NumStr(0),              \* 'N/A'
   time |-> prediction.timestamp,
   status |-> "Analysis Complete"]

NoAlert == <<>>
NoRows == [written |-> FALSE]

\* Object.keys(this.validators), in insertion order
PageFields == <<"modelType", "qualityScore", "currentPrice", "volatility">>

\* TradePredictorFormController.setupValidators: validators[fieldId](value)
Validator(fieldId, value) ==
  CASE fieldId = "modelType" -> value # ""
    [] fieldId = "qualityScore" ->
         LET score == ToNumber(value)
         IN  score.type = "number" /\ score.val >= 0 /\ score.val <= 50
    [] fieldId = "currentPrice" ->
         LET price == ToNumber(value)
         IN  price.type = "number" /\ price.val > 0
    [] fieldId = "volatility" -> value \in {"low", "medium", "high"}

\* the index of the first field whose validator fails, Len + 1 when none
RECURSIVE FirstInvalid(_, _)
FirstInvalid(values, i) ==
  IF i > Len(PageFields) THEN i
  ELSE IF ~Validator(PageFields[i], values[PageFields[i]]) THEN i
  ELSE FirstInvalid(values, i + 1)

\* validateForm with some in the place of every
validateForm_some(values) ==
  \E i \in 1..Len(PageFields) : Validator(PageFields[i], values[PageFields[i]])

\* TradePredictorFormController.validateForm: every field validates
validateForm(values) == FirstInvalid(values, 1) > Len(PageFields)

\* the error marks validateField leaves on the fields that every(...)
\* visits: all up to the first that fails
MarksAfterEvery(values, error) ==
  [fieldId \in DOMAIN error |->
     LET i == CHOOSE k \in 1..Len(PageFields) : PageFields[k] = fieldId
     IN  IF i <= FirstInvalid(values, 1)
         THEN ~Validator(fieldId, values[fieldId])
         ELSE error[fieldId]]

\* TradePredictorFormController.getFormData
getFormData(values) ==
  [modelType |-> values.modelType,
   qualityScore |-> ToNumber(values.qualityScore),
   currentPrice |-> ToNumber(values.currentPrice),
   volatility |-> values.volatility,
   timestamp |-> NumStr(now)]

NoRequest == [sent |-> FALSE]
NoResponse == [received |-> FALSE]

\* the formData object as the server function hands it to
\* TradePredictor.predictSetup: it has no session, balance, risk or
\* timeframes property
SetupOfPage(formData) ==
  [modelType |-> formData.modelType, session |-> NoString,
   qualityScore |-> formData.qualityScore,
   currentPrice |-> Whole(formData.currentPrice),
   volatility |-> formData.volatility,
   accountBalance |-> Undefined, maxRiskPercent |-> Undefined,
   timeframes |-> NoTimeframes]

\* Utilities.formatDate(date, timeZone, 'yyyy-MM-dd'): the day as a text
Utilities_formatDate(date) == NumStr(date.val)

\* tradeResults[dateStr] of updateTradeResults: the results of the Data
\* Entry rows whose column A is a Date of that day and whose column O is
\* not empty, in sheet order
TradeResults(dataEntryRows, dateStr) ==
  LET Recorded(row) ==
        /\ row.tradeDate.type = "object"
        /\ row.result # ""
        /\ Utilities_formatDate(row.tradeDate) = dateStr
      rows == SelectSeq(dataEntryRows, Recorded)
  IN  [i \in 1..Len(rows) |-> rows[i].result]

\* dateStr of a tracking row: the cell itself when it is a text
DateStr(row) ==
  IF row.tradeDate.type = "string" THEN row.tradeDate
  ELSE Utilities_formatDate(row.tradeDate)

\* the tracking row without the test of its result cell
UpdatedRow_noGuard(row, dataEntryRows) ==
  LET results == TradeResults(dataEntryRows, DateStr(row))
  IN  IF Len(results) > 0 THEN [row EXCEPT !.result = results[1]]
      ELSE row

\* a tracking row after the forEach body of updateTradeResults
UpdatedRow(row, dataEntryRows) ==
  LET results == TradeResults(dataEntryRows, DateStr(row))
  IN  IF row.result = "" /\ Len(results) > 0
      THEN [row EXCEPT !.result = results[1]]
      ELSE row

---------------------------------------------------------------------------
(* State machine                                                           *)

NoResult == [called |-> FALSE]
NoSetup == [called |-> FALSE]
NoSheet == [opened |-> FALSE]
NoPage == [opened |-> FALSE]
\* the two sheets with their header rows alone
NoBook ==
  [tracking |-> <<>>, dataEntry |-> <<>>, ran |-> FALSE, updatedCount |-> 0]

Init ==
  /\ history = <<>>
  /\ now = 0
  /\ setup = NoSetup
  /\ result = NoResult
  /\ similarTrades = <<>>
  /\ steps = <<>>
  /\ prev = NoResult
  /\ changed = FALSE
  /\ ticked = FALSE
  /\ sheet = NoSheet
  /\ page = NoPage
  /\ book = NoBook

\* PatternAnalysis.getPredictionHistory(): the stored records
getPredictionHistory == history

\* the object predictSetup returns on success
Predicted(s, prediction, baseStopLoss) ==
  [success |-> TRUE,
   prediction |->
     [probability |-> prediction.probability,
      confidence |-> prediction.confidence,
      recommendedEntry |-> _calculateEntry(s),
      suggestedStopLoss |-> baseStopLoss,
      adjustedStopLoss |-> _adjustForVolatility(s, baseStopLoss),
      timeframeAlignment |-> _analyzeTimeframes(s),
      positionSize |-> _calculatePositionSize(s, baseStopLoss),
      timestamp |-> formatDate(now)]]

\* the filter callback of _findSimilarTrades reads trade.modelType of every
\* entry: a null entry raises a TypeError
ThrowsTypeError(h) == \E i \in 1..Len(h) : h[i] = Null

\* predictSetup fetching the history before it validates the setup
predictSetup_fetchFirst(s) ==
  /\ setup' = s
  /\ prev' = IF ~changed /\ s = setup THEN result ELSE NoResult
  /\ changed' = FALSE
  /\ ticked' = FALSE
  /\ UNCHANGED <<history, now>>
  /\ IF ~_validateSetup(s)
     THEN /\ result' = [success |-> FALSE, message |-> "Invalid setup data"]
          /\ similarTrades' = <<>>
          /\ steps' = <<"getPredictionHistory", "_validateSetup">>
     ELSE IF ThrowsTypeError(getPredictionHistory)
     THEN /\ result' = [success |-> FALSE, message |-> "TypeError"]
          /\ similarTrades' = <<>>
          /\ steps' = <<"getPredictionHistory", "_validateSetup",
                        "_findSimilarTrades", "Logger.log">>
     ELSE \E similar \in {_findSimilarTrades(s, getPredictionHistory)} :
            /\ result' = Predicted(s, _calculateProbability(similar),
                                   _calculateStopLoss(s))
            /\ similarTrades' = similar
            /\ steps' = <<"getPredictionHistory", "_validateSetup",
                          "_findSimilarTrades", "_calculateProbability">>

\* predictSetup storing each weight in the matched record itself
predictSetup_weightInPlace(s) ==
  /\ setup' = s
  /\ prev' = IF ~changed /\ s = setup THEN result ELSE NoResult
  /\ changed' = FALSE
  /\ ticked' = FALSE
  /\ UNCHANGED now
  /\ IF ~_validateSetup(s)
     THEN /\ result' = [success |-> FALSE, message |-> "Invalid setup data"]
          /\ similarTrades' = <<>>
          /\ steps' = <<"_validateSetup">>
          /\ UNCHANGED history
     ELSE IF ThrowsTypeError(getPredictionHistory)
     THEN /\ result' = [success |-> FALSE, message |-> "TypeError"]
          /\ similarTrades' = <<>>
          /\ steps' = <<"_validateSetup", "getPredictionHistory",
                        "_findSimilarTrades", "Logger.log">>
          /\ UNCHANGED history
     ELSE \E similar \in {_findSimilarTrades(s, getPredictionHistory)} :
            /\ result' = Predicted(s, _calculateProbability(similar),
                                   _calculateStopLoss(s))
            /\ similarTrades' = similar
            /\ steps' = <<"_validateSetup", "getPredictionHistory",
                          "_findSimilarTrades", "_calculateProbability">>
            /\ history' =
                 [i \in DOMAIN history |->
                    IF \E j \in 1..Len(similar) : similar[j] = history[i]
                    THEN [weight |-> _calculateTradeWeight(history[i])]
                           @@ history[i]
                    ELSE history[i]]

\* predictSetup without its try ... catch
predictSetup_noCatch(s) ==
  /\ setup' = s
  /\ prev' = IF ~changed /\ s = setup THEN result ELSE NoResult
  /\ changed' = FALSE
  /\ ticked' = FALSE
  /\ UNCHANGED <<history, now>>
  /\ IF ~_validateSetup(s)
     THEN /\ result' = [success |-> FALSE, message |-> "Invalid setup data"]
          /\ similarTrades' = <<>>
          /\ steps' = <<"_validateSetup">>
     ELSE IF ThrowsTypeError(getPredictionHistory)
     THEN /\ result' = [thrown |-> "TypeError"]
          /\ similarTrades' = <<>>
          /\ steps' = <<"_validateSetup", "getPredictionHistory",
                        "_findSimilarTrades">>
     ELSE \E similar \in {_findSimilarTrades(s, getPredictionHistory)} :
            /\ result' = Predicted(s, _calculateProbability(similar),
                                   _calculateStopLoss(s))
            /\ similarTrades' = similar
            /\ steps' = <<"_validateSetup", "getPredictionHistory",
                          "_findSimilarTrades", "_calculateProbability">>

\* TradePredictor.predictSetup(setup); Logger is the logger of the Apps
\* Script runtime
predictSetup(s) ==
  /\ setup' = s
  /\ prev' = IF ~changed /\ s = setup THEN result ELSE NoResult
  /\ changed' = FALSE
  /\ ticked' = FALSE
  /\ UNCHANGED <<history, now>>
  /\ IF ~_validateSetup(s)
     THEN /\ result' = [success |-> FALSE, message |-> "Invalid setup data"]
          /\ similarTrades' = <<>>
          /\ steps' = <<"_validateSetup">>
     ELSE IF ThrowsTypeError(getPredictionHistory)
     THEN /\ result' = [success |-> FALSE, message |-> "TypeError"]
          /\ similarTrades' = <<>>
          /\ steps' = <<"_validateSetup", "getPredictionHistory",
                        "_findSimilarTrades", "Logger.log">>
     ELSE \E similar \in {_findSimilarTrades(s, getPredictionHistory)} :
            /\ result' = Predicted(s, _calculateProbability(similar),
                                   _calculateStopLoss(s))
            /\ similarTrades' = similar
            /\ steps' = <<"_validateSetup", "getPredictionHistory",
                          "_findSimilarTrades", "_calculateProbability">>

\* a caller other than the two forms runs TradePredictor.predictSetup
CallPredictSetup(s) == predictSetup(s) /\ UNCHANGED <<sheet, page, book>>

\* TradePredictorForm.createForm(sheet)
createForm ==
  /\ sheet = NoSheet
  /\ sheet' = [opened |-> TRUE, cells |-> FormCells, rows |-> NoRows,
               submitted |-> FALSE, returned |-> FALSE, alert |-> NoAlert,
               invoked |-> FALSE, wrote |-> FALSE]
  /\ UNCHANGED <<history, now, setup, result, similarTrades, steps, prev,
                 changed, ticked, page, book>>

\* the user fills in a cell of the form
EditCell(cell, value) ==
  /\ sheet # NoSheet
  /\ sheet.cells[cell] # value
  /\ sheet' = [sheet EXCEPT !.cells[cell] = value, !.submitted = FALSE]
  /\ UNCHANGED <<history, now, setup, result, similarTrades, steps, prev,
                 changed, ticked, page, book>>

\* TradePredictorForm.handleSubmit()
TradePredictorForm_handleSubmit ==
  /\ sheet # NoSheet
  /\ UNCHANGED <<page, book>>
  /\ \E setupData \in {_getFormData(sheet.cells)} :
     \E validationResult \in {_validateFormData(setupData)} :
       IF ~validationResult.isValid
       THEN /\ sheet' = [sheet EXCEPT
                 !.submitted = TRUE, !.returned = FALSE,
                 !.alert = <<"Validation Error", validationResult.message>>,
                 !.invoked = FALSE, !.wrote = FALSE]
            /\ UNCHANGED <<history, now, setup, result, similarTrades, steps,
                           prev, changed, ticked>>
       ELSE /\ predictSetup(SetupOfSheet(setupData))
            /\ IF ~result'.success
               THEN sheet' = [sheet EXCEPT
                      !.submitted = TRUE, !.returned = FALSE,
                      !.alert = <<"Prediction Error", result'.message>>,
                      !.invoked = TRUE, !.wrote = FALSE]
               ELSE sheet' = [sheet EXCEPT
                      !.submitted = TRUE, !.returned = TRUE,
                      !.alert = NoAlert,
                      !.rows = _displayResults(result'.prediction),
                      !.invoked = TRUE, !.wrote = TRUE]

\* new TradePredictorFormController('tradePredictorForm') on a dialog whose
\* fields are empty
TradePredictorFormController ==
  /\ page = NoPage
  /\ page' = [opened |-> TRUE,
              values |-> [modelType |-> "", qualityScore |-> <<>>,
                          currentPrice |-> <<>>, volatility |-> ""],
              error |-> [fieldId \in {"modelType", "qualityScore",
                                      "currentPrice", "volatility"} |-> FALSE],
              disabled |-> FALSE, calls |-> <<>>, request |-> NoRequest,
              response |-> NoResponse, globalError |-> "",
              submitted |-> FALSE]
  /\ UNCHANGED <<history, now, setup, result, similarTrades, steps, prev,
                 changed, ticked, sheet, book>>

\* a script assigns element.value; no event is dispatched
AssignValue(fieldId, value) ==
  /\ page # NoPage
  /\ page.values[fieldId] # value
  /\ page' = [page EXCEPT !.values[fieldId] = value, !.submitted = FALSE]
  /\ UNCHANGED <<history, now, setup, result, similarTrades, steps, prev,
                 changed, ticked, sheet, book>>

\* the user types into a field: the 'input' listener runs validateField and
\* updateSubmitButton
InputValue(fieldId, value) ==
  /\ page # NoPage
  /\ page.values[fieldId] # value
  /\ \E values \in {[page.values EXCEPT ![fieldId] = value]} :
       page' = [page EXCEPT
         !.values = values,
         !.error = MarksAfterEvery(values,
                     [page.error EXCEPT
                        ![fieldId] = ~Validator(fieldId, value)]),
         !.disabled = ~validateForm(values),
         !.submitted = FALSE]
  /\ UNCHANGED <<history, now, setup, result, similarTrades, steps, prev,
                 changed, ticked, sheet, book>>

\* TradePredictorFormController.handleSubmit(event), up to the dispatch of
\* the request to the server
TradePredictorFormController_handleSubmit ==
  /\ page # NoPage
  /\ IF ~validateForm(page.values)
     THEN page' = [page EXCEPT
            !.calls = <<"preventDefault">>,
            !.error = MarksAfterEvery(page.values, page.error),
            !.submitted = TRUE]
     ELSE page' = [page EXCEPT
            !.calls = <<"preventDefault", "predictTradeSetup">>,
            !.error = MarksAfterEvery(page.values, page.error),
            !.request = [sent |-> TRUE, formData |-> getFormData(page.values)],
            !.response = NoResponse,
            !.disabled = FALSE,
            !.submitted = TRUE]
  /\ UNCHANGED <<history, now, setup, result, similarTrades, steps, prev,
                 changed, ticked, sheet, book>>

\* the server function predictTradeSetup(formData) of main.js runs on the
\* request in flight, and the success handler of the page, handleSuccess,
\* receives what it returns
predictTradeSetup ==
  /\ page # NoPage
  /\ page.request.sent
  /\ page.response = NoResponse
  /\ predictSetup(SetupOfPage(page.request.formData))
  /\ IF ~result'.success
     THEN page' = [page EXCEPT
            !.response = [received |-> TRUE, success |-> FALSE,
                          message |-> result'.message],
            !.globalError = result'.message]
     ELSE page' = [page EXCEPT
            !.response = [received |-> TRUE, success |-> TRUE,
                          prediction |-> result'.prediction]]
  /\ UNCHANGED <<sheet, book>>

\* logTradeCheckWithProbability appends a tracking row for a trade date and
\* leaves its result cell blank
logTradeCheckWithProbability(tradeDate) ==
  /\ Len(book.tracking) < MaxRows
  /\ book' = [book EXCEPT
       !.tracking = Append(@, [tradeDate |-> tradeDate, result |-> ""]),
       !.ran = FALSE]
  /\ UNCHANGED <<history, now, setup, result, similarTrades, steps, prev,
                 changed, ticked, sheet, page>>

\* the trader adds a row to the Data Entry Form: column A and column O
EnterTrade(tradeDate, outcome) ==
  /\ Len(book.dataEntry) < MaxRows
  /\ book' = [book EXCEPT
       !.dataEntry = Append(@, [tradeDate |-> tradeDate, result |-> outcome]),
       !.ran = FALSE]
  /\ UNCHANGED <<history, now, setup, result, similarTrades, steps, prev,
                 changed, ticked, sheet, page>>

\* the trader changes column O of a row of the Data Entry Form
EditResult(i, outcome) ==
  /\ i \in 1..Len(book.dataEntry)
  /\ book.dataEntry[i].result # outcome
  /\ book' = [book EXCEPT !.dataEntry[i].result = outcome, !.ran = FALSE]
  /\ UNCHANGED <<history, now, setup, result, similarTrades, steps, prev,
                 changed, ticked, sheet, page>>

\* updateTradeResults(), both sheets being there: reads the two data
\* ranges, then sets column 8 of the rows it updates and logs their number
updateTradeResults ==
  /\ \E rows \in {[i \in 1..Len(book.tracking) |->
                     UpdatedRow(book.tracking[i], book.dataEntry)]} :
       book' = [book EXCEPT
         !.tracking = rows,
         !.ran = TRUE,
         !.updatedCount =
           Cardinality({ i \in 1..Len(rows) : rows[i] # book.tracking[i] })]
  /\ UNCHANGED <<history, now, setup, result, similarTrades, steps, prev,
                 changed, ticked, sheet, page>>

\* the journaling collaborator stores a completed trade, stamped with the
\* current time or without a timestamp
RecordTrade(t, stamped, maxLen) ==
  /\ Len(history) < maxLen
  /\ history' = Append(history,
       [t EXCEPT !.timestamp = IF stamped THEN DateAt(now) ELSE Undefined])
  /\ changed' = TRUE
  /\ UNCHANGED <<now, setup, result, similarTrades, steps, prev, ticked,
                 sheet, page, book>>

\* the history comes to hold an entry that is no trade record
RecordMalformed(entry, maxLen) ==
  /\ Len(history) < maxLen
  /\ history' = Append(history, entry)
  /\ changed' = TRUE
  /\ UNCHANGED <<now, setup, result, similarTrades, steps, prev, ticked,
                 sheet, page, book>>

\* time passes
Tick ==
  /\ now + TickDays <= MaxDay
  /\ now' = now + TickDays
  /\ ticked' = TRUE
  /\ UNCHANGED <<history, setup, result, similarTrades, steps, prev, changed,
                 sheet, page, book>>

---------------------------------------------------------------------------
(* Inputs                                                                  *)

Trade(mt, se, q, res) ==
  [modelType |-> mt, session |-> se, qualityScore |-> q, result |-> res,
   timestamp |-> Undefined]

Setup(mt, se, q, price) ==
  [modelType |-> mt, session |-> se, qualityScore |-> q,
   currentPrice |-> price, volatility |-> NoString,
   accountBalance |-> Undefined, maxRiskPercent |-> Undefined,
   timeframes |-> NoTimeframes]

\* the records and setups of tests/trades/tradePredictor.test.js
TestTrades ==
  { Trade("FVG-RD", "London", 45, "Success"),
    Trade("FVG-RD", "London", 43, "Success"),
    Trade("FVG-RD", "NY", 35, "Failure"),
    Trade("FVG-RD", "Asian", 40, "Success") }

EmptySetup == Setup(NoString, NoString, Undefined, Undefined)     \* {}

TestSetups ==
  { Setup("FVG-RD", "London", Num(44), Num(100)),
    Setup("FVG-RD", "Asian", Num(40), Num(100)),
    [Setup("FVG-RD", "London", Num(44), Num(100))
       EXCEPT !.volatility = "high"],
    [Setup("FVG-RD", "London", Num(44), Num(100))
       EXCEPT !.timeframes = Timeframes(<<"H1", "H4", "D1">>)],
    [Setup("FVG-RD", "London", Num(44), Num(100))
       EXCEPT !.accountBalance = Num(10000), !.maxRiskPercent = Num(1)],
    EmptySetup }

\* setups around the bounds of _validateSetup
EdgeSetups ==
  { Setup("", "London", Num(44), Num(100)),
    Setup("FVG-RD", "", Num(44), Num(100)),
    Setup("FVG-RD", NoString, Num(44), Num(100)),
    Setup("FVG-RD", "London", Num(55), Num(100)),
    Setup("FVG-RD", "London", Num(51), Num(100)),
    Setup("FVG-RD", "London", Num(-1), Num(100)),
    Setup("FVG-RD", "London", NumStr(44), Num(100)),
    Setup("FVG-RD", "London", Undefined, Num(100)),
    Setup("FVG-RD", "London", Num(0), Undefined),
    Setup("FVG-RD", "London", Num(50), Num(0)),
    Setup("FVG-RD", "Tokyo", Num(44), Undefined) }

Next ==
  \/ \E t \in TestTrades : RecordTrade(t, FALSE, MaxHistory)
  \/ \E s \in TestSetups \cup EdgeSetups : CallPredictSetup(s)

Spec == Init /\ [][Next]_vars

\* records of one model and session with weights on both sides of 1, with
\* and without timestamp, and setups that match them or match nothing
ScoreTrades ==
  { Trade("FVG-RD", "London", 28, "Success"),
    Trade("FVG-RD", "London", 31, "Failure"),
    Trade("FVG-RD", "London", 31, "Pending") }

ScoreSetups ==
  { Setup("FVG-RD", "London", Num(30), Num(100)),
    Setup("FVG-RD", "London", Num(40), Undefined) }

NextScore ==
  \/ \E t \in ScoreTrades, stamped \in BOOLEAN :
        RecordTrade(t, stamped, MaxHistory)
  \/ Tick
  \/ \E s \in ScoreSetups : CallPredictSetup(s)

SpecScore == Init /\ [][NextScore]_vars

\* records at and around the two tolerances of a setup, and of another
\* session
SelectTrades ==
  { Trade("FVG-RD", "London", 40, "Success"),
    Trade("FVG-RD", "London", 42, "Failure"),
    Trade("FVG-RD", "NY", 42, "Success") }

SelectSetups ==
  { Setup("FVG-RD", "London", Num(42), Num(100)),
    Setup("FVG-RD", "London", Num(47), Num(100)),
    Setup("FVG-RD", "London", Num(39), Num(100)) }

NextSelect ==
  \/ \E t \in SelectTrades : RecordTrade(t, FALSE, MaxSelect)
  \/ \E s \in SelectSetups : CallPredictSetup(s)

SpecSelect == Init /\ [][NextSelect]_vars

\* arguments that are no setup object, the empty object, and history
\* entries that are null or an empty object
EmptyEntry == Trade(NoString, NoString, 0, NoString)              \* {}
MalformedEntries == {Null, EmptyEntry}
MalformedSetups ==
  { Null, Undefined, EmptySetup,
    Setup("FVG-RD", "London", Num(44), Num(100)) }

NextMalformed ==
  \/ RecordTrade(Trade("FVG-RD", "London", 45, "Success"), FALSE, MaxHistory)
  \/ \E entry \in MalformedEntries : RecordMalformed(entry, MaxHistory)
  \/ \E s \in MalformedSetups : CallPredictSetup(s)

SpecMalformed == Init /\ [][NextMalformed]_vars

\* records of the lowest quality scores, whose weight the floor 0.2 decides
\* once they are some days old, and setups that match them
FloorTrades ==
  { Trade("FVG-RD", "London", 0, "Failure"),
    Trade("FVG-RD", "London", 1, "Success"),
    Trade("FVG-RD", "London", 4, "Failure") }

FloorSetups ==
  { Setup("FVG-RD", "London", Num(0), Num(100)),
    Setup("FVG-RD", "London", Num(5), Undefined) }

NextFloor ==
  \/ \E t \in FloorTrades, stamped \in BOOLEAN :
        RecordTrade(t, stamped, MaxHistory)
  \/ Tick
  \/ \E s \in FloorSetups : CallPredictSetup(s)

SpecFloor == Init /\ [][NextFloor]_vars

\* the history and the setup of the test "should weight trades by quality
\* score", and that setup with every price, volatility, risk parameter and
\* timeframe list of interest
OutputTrades ==
  { Trade("FVG-RD", "Asian", 50, "Success"),
    Trade("FVG-RD", "Asian", 20, "Success") }

WeightSetup == Setup("FVG-RD", "Asian", Num(40), Num(100))

OutputPrices == {Undefined, Num(0), Num(-5), Num(1), Num(100)}
OutputVolatilities == {NoString, "high", "low"}
OutputRisks ==
  { <<Undefined, Undefined>>, <<Num(10000), Undefined>>,
    <<Undefined, Num(1)>>, <<Num(10000), Num(1)>>, <<Num(10000), Num(2)>> }
OutputTimeframes ==
  { Timeframes(<<>>), Timeframes(<<"H1", "H4", "D1">>),
    Timeframes(<<"H1", "H1">>) }

OutputSetups ==
  { [WeightSetup EXCEPT !.currentPrice = price, !.volatility = volatility,
                        !.accountBalance = risk[1],
                        !.maxRiskPercent = risk[2]] :
      price \in OutputPrices, volatility \in OutputVolatilities,
      risk \in OutputRisks }
  \cup { [WeightSetup EXCEPT !.timeframes = tfs] : tfs \in OutputTimeframes }

NextOutputs ==
  \/ \E t \in OutputTrades : RecordTrade(t, TRUE, MaxOutputs)
  \/ \E s \in OutputSetups : CallPredictSetup(s)

SpecOutputs == Init /\ [][NextOutputs]_vars

\* records that the setup of that test matches, and setups that agree with it
\* on modelType, session and qualityScore and differ in the other fields
MixTrades ==
  { Trade("FVG-RD", "Asian", 40, "Success"),
    Trade("FVG-RD", "Asian", 38, "Failure") }

MixSetups ==
  { WeightSetup,
    [WeightSetup EXCEPT !.currentPrice = Undefined],
    [WeightSetup EXCEPT !.volatility = "high"],
    [WeightSetup EXCEPT !.accountBalance = Num(10000),
                        !.maxRiskPercent = Num(1)],
    [WeightSetup EXCEPT !.volatility = "high",
                        !.accountBalance = Num(10000),
                        !.maxRiskPercent = Num(2)],
    [WeightSetup EXCEPT !.timeframes = Timeframes(<<"H1", "H4", "D1">>)] }

NextMix ==
  \/ \E t \in MixTrades, stamped \in BOOLEAN :
        RecordTrade(t, stamped, MaxOutputs)
  \/ Tick
  \/ \E s \in MixSetups : CallPredictSetup(s)

SpecMix == Init /\ [][NextMix]_vars

\* the cell values of tests/forms/tradePredictorForm.test.js and empty cells
SheetCells ==
  [modelType : {"", "FVG-RD"},
   session : {"", "London"},
   qualityScore : {<<>>, <<"4", ".", "5">>, <<"6">>, <<"-", "1">>,
                   <<"i", "n", "v", "a", "l", "i", "d">>},
   currentPrice : {<<>>, <<"1", "0", "0">>},
   volatility : {"", "medium"},
   accountBalance : {<<>>, <<"1", "0", "0", "0", "0">>},
   maxRiskPercent : {<<"1">>, <<"6">>}]

NextSheet ==
  \/ createForm
  \/ \E cell \in DOMAIN FormCells :
       \E value \in { cells[cell] : cells \in SheetCells } :
         EditCell(cell, value)
  \/ TradePredictorForm_handleSubmit

SpecSheet == Init /\ [][NextSheet]_vars

\* the field values of the controller's tests, and a volatility chosen
PageValues ==
  [modelType : {"", "FVG-RD"},
   qualityScore : {<<>>, <<"4", ".", "5">>, <<"6">>, <<"-", "1">>,
                   <<"a", "b", "c">>},
   currentPrice : {<<>>, <<"1", "0", "0">>, <<"0">>, <<"-", "5", "0">>,
                   <<"a", "b", "c">>},
   volatility : {"", "low", "extreme"}]

NextPage ==
  \/ TradePredictorFormController
  \/ \E i \in 1..Len(PageFields) :
       \E value \in { values[PageFields[i]] : values \in PageValues } :
         \/ AssignValue(PageFields[i], value)
         \/ InputValue(PageFields[i], value)
  \/ TradePredictorFormController_handleSubmit
  \/ predictTradeSetup

SpecPage == Init /\ [][NextPage]_vars

\* trade dates as texts and as Date cells, and the outcomes of column O
TrackingDates == {NumStr(1), DateAt(2)}
EntryDates == {DateAt(1), NumStr(1), DateAt(2)}
Outcomes == {"", "Win", "Loss"}

NextBook ==
  \/ \E tradeDate \in TrackingDates : logTradeCheckWithProbability(tradeDate)
  \/ \E tradeDate \in EntryDates, outcome \in Outcomes :
        EnterTrade(tradeDate, outcome)
  \/ \E i \in 1..MaxRows, outcome \in Outcomes : EditResult(i, outcome)
  \/ updateTradeResults

SpecBook == Init /\ [][NextBook]_vars

---------------------------------------------------------------------------
(* Properties                                                              *)

Returned == "success" \in DOMAIN result
Succeeded == Returned /\ result.success
\* the history and the clock are those the last call saw
Fresh == ~changed /\ ~ticked

\* the conditions of the specification, in exact decimal arithmetic
ValidBySpec(s) ==
  /\ s.modelType \notin {"", NoString}
  /\ s.session \notin {"", NoString}
  /\ s.qualityScore.type = "number"
  /\ s.qualityScore.val >= 0
  /\ s.qualityScore.val <= 50

InvalidBySpec(s) ==
  \/ s.modelType \in {"", NoString}
  \/ s.session \in {"", NoString}
  \/ s.qualityScore.type = "undefined"
  \/ s.qualityScore.type = "number"
       /\ (s.qualityScore.val < 0 \/ s.qualityScore.val > 50)

MatchBySpec(trade, s, tol) ==
  /\ trade.modelType = s.modelType
  /\ trade.session = s.session
  /\ Abs(trade.qualityScore - s.qualityScore.val) <= tol

SelectBySpec(s, h) ==
  LET Tier1(trade) == MatchBySpec(trade, s, 2)
      Tier2(trade) == MatchBySpec(trade, s, 5)
  IN  IF Len(SelectSeq(h, Tier1)) >= 2
      THEN SubSeq(SelectSeq(h, Tier1), 1, Min2(5, Len(SelectSeq(h, Tier1))))
      ELSE SubSeq(SelectSeq(h, Tier2), 1, Min2(5, Len(SelectSeq(h, Tier2))))

\* the hundredths nearest to num/den; both neighbours on an exact tie
Nearest(num, den) ==
  LET q == (100 * num) \div den
      r == (100 * num) % den
  IN  IF 2 * r < den THEN {q} ELSE IF 2 * r > den THEN {q + 1} ELSE {q, q + 1}

Untimed(trades) == \A i \in 1..Len(trades) : ~Truthy(trades[i].timestamp)

\* C1: every prediction returned has probability in [0,1] and confidence in
\* [0.1,1]
C1_Range ==
  Succeeded =>
    /\ result.prediction.probability \in 0..100
    /\ result.prediction.confidence \in 10..100

\* a prediction over matched records whose average weight the upper clamp cut
C1_Witness ==
  /\ Succeeded /\ Fresh
  /\ Len(similarTrades) >= 1
  /\ \A i \in 1..Len(similarTrades) :
       _calculateTradeWeight(similarTrades[i]) > 100
  /\ result.prediction.confidence = 100

\* C2: select returns the first 5 of the Tier-1 records (tolerance 0.2, the
\* bound included) when there are at least 2, else the first 5 of the Tier-2
\* records (tolerance 0.5)
C2_SelectTiers ==
  (Succeeded /\ ~changed) => similarTrades = SelectBySpec(setup, history)

C4_InvalidSetup ==
  (Returned /\ InvalidBySpec(setup)) =>
    result = [success |-> FALSE, message |-> "Invalid setup data"]

\* the setup with qualityScore 5.5 was refused
C4_Witness ==
  /\ Returned
  /\ setup.qualityScore = Num(55)
  /\ TruthyStr(setup.modelType) /\ TruthyStr(setup.session)
  /\ ~result.success

\* C5: every setup with non-empty modelType and session and a numeric
\* qualityScore in [0,5] gets a prediction, whatever else it lacks
C5_OnlyInvalidFails ==
  (Returned /\ ValidBySpec(setup)) =>
    /\ DOMAIN result = {"success", "prediction"}
    /\ result.success

\* a setup with qualityScore 0 and no price got a prediction over a
\* non-empty history
C5_Witness ==
  /\ Succeeded
  /\ setup.qualityScore = Num(0)
  /\ setup.currentPrice = Undefined
  /\ ~changed /\ history # <<>>

\* C6 as stated: a second call with the same setup on the unmodified history
\* returns what the first returned
C6_Idempotent == prev # NoResult => result = prev

\* C6, amended: the second call returns the same output when no matched
\* record carries a timestamp, and otherwise the same output but for the
\* confidence
C6_IdempotentButRecency ==
  prev # NoResult =>
    IF Untimed(similarTrades) THEN result = prev
    ELSE /\ result.success = prev.success
         /\ result.success =>
              [result.prediction EXCEPT !.confidence = 0]
                = [prev.prediction EXCEPT !.confidence = 0]

\* a repeated call, after the clock has advanced, over matched records
\* without timestamp
C6_Witness ==
  /\ prev # NoResult /\ Succeeded
  /\ now > 0 /\ ~ticked /\ ~changed
  /\ similarTrades # <<>> /\ Untimed(similarTrades)
  /\ result.prediction.confidence < 100

\* C7: probability is the number of matched records with result Success over
\* the number of matched records, rounded to 2 decimals
C7_Probability ==
  (Succeeded /\ similarTrades # <<>>) =>
    result.prediction.probability
      \in Nearest(Cardinality({ i \in 1..Len(similarTrades) :
                                  similarTrades[i].result = "Success" }),
                  Len(similarTrades))

\* matched records of which one is a Success and another neither a Success
\* nor a Failure
C7_Witness ==
  /\ Succeeded
  /\ Len(similarTrades) >= 2
  /\ { similarTrades[i].result : i \in 1..Len(similarTrades) }
       = {"Success", "Pending"}
  /\ result.prediction.probability \in 1..99

\* qualityWeight * recencyWeight of the specification as an exact fraction,
\* in units of 1/30000
RefProduct(trade) ==
  (200 + 26 * trade.qualityScore)
    * (IF Truthy(trade.timestamp)
       THEN Max2(24, 30 - (now - trade.timestamp.val)) ELSE 30)

\* clamp to [0.15, 1], then round to hundredths
ClampRound(num, den) ==
  IF num >= den THEN {100}
  ELSE IF 100 * num <= 15 * den THEN {15}
  ELSE Nearest(num, den)

RECURSIVE RefSum(_)
RefSum(trades) ==
  IF trades = <<>> THEN 0
  ELSE Max2(6000, RefProduct(Head(trades))) + RefSum(Tail(trades))

\* the sums of the per-record weights rounded to hundredths before the floor
RECURSIVE RoundedSums(_)
RoundedSums(trades) ==
  IF trades = <<>> THEN {0}
  ELSE { Max2(20, w) + rest :
           w \in Nearest(RefProduct(Head(trades)), 30000),
           rest \in RoundedSums(Tail(trades)) }

\* C8 as stated: confidence is the average over the matched records of
\* max(0.2, qualityWeight * recencyWeight), clamped to [0.15, 1] and rounded
\* to 2 decimals
C8_ConfidenceFormula ==
  (Succeeded /\ Fresh /\ similarTrades # <<>>) =>
    result.prediction.confidence
      \in ClampRound(RefSum(similarTrades), 30000 * Len(similarTrades))

\* C8, amended: confidence is the average over the matched records of
\* max(0.2, qualityWeight * recencyWeight rounded to 2 decimals), clamped to
\* [0.15, 1] and rounded to 2 decimals
C8_ConfidenceRoundedWeights ==
  (Succeeded /\ Fresh /\ similarTrades # <<>>) =>
    \E sum \in RoundedSums(similarTrades) :
      result.prediction.confidence
        \in ClampRound(sum, 100 * Len(similarTrades))

\* a confidence below the upper clamp over two or more matched records, one
\* of them old enough for the recency floor
C8_Witness ==
  /\ Succeeded /\ Fresh
  /\ Len(similarTrades) >= 2
  /\ \E i \in 1..Len(similarTrades) :
       /\ Truthy(similarTrades[i].timestamp)
       /\ now - similarTrades[i].timestamp.val > 6
  /\ result.prediction.confidence \in 16..99

ScenarioA == Setup("FVG-RD", "London", Num(44), Num(100))
ScenarioB == Setup("FVG-RD", "Asian", Num(40), Num(100))

\* C9: for the setup FVG-RD/London/4.4 and the two matched records of
\* quality 4.5 and 4.3, both Success, probability is 1.0 and confidence 0.2
C9_ScenarioA ==
  (/\ Succeeded /\ setup = ScenarioA
   /\ similarTrades = << Trade("FVG-RD", "London", 45, "Success"),
                         Trade("FVG-RD", "London", 43, "Success") >>)
  => /\ result.prediction.probability = 100
     /\ result.prediction.confidence = 20

\* C10: for the setup FVG-RD/Asian/4.0 and the one matched record of quality
\* 4.0, confidence is 0.1
C10_ScenarioB ==
  (/\ Succeeded /\ setup = ScenarioB
   /\ similarTrades = << Trade("FVG-RD", "Asian", 40, "Success") >>)
  => result.prediction.confidence = 10

IsNumber(x) == x.type = "number"
HasRisk(s) == IsNumber(s.accountBalance) /\ IsNumber(s.maxRiskPercent)

\* C11: positionSize is floor(accountBalance * (maxRiskPercent / 100) /
\* |currentPrice - suggestedStopLoss|) when both risk parameters are present
\* and the stop distance, one hundredth of |currentPrice|, is above 0, and
\* null in every other case
C11_PositionSize ==
  Succeeded =>
    IF HasRisk(setup) /\ IsNumber(setup.currentPrice)
         /\ setup.currentPrice.val # 0
    THEN result.prediction.positionSize
           = Num((setup.accountBalance.val * setup.maxRiskPercent.val)
                   \div Abs(setup.currentPrice.val))
    ELSE result.prediction.positionSize = Null

IsZero(x) == x.type = "double" /\ x.val.c = 0 /\ x.val.e = 0

\* C12: with currentPrice absent, zero or negative the call succeeds with
\* recommendedEntry 0, suggestedStopLoss 0 and adjustedStopLoss 0
C12_NoPrice ==
  (/\ Returned /\ ValidBySpec(setup)
   /\ (~IsNumber(setup.currentPrice) \/ setup.currentPrice.val <= 0))
  => /\ result.success
     /\ result.prediction.recommendedEntry = Num(0)
     /\ IsZero(result.prediction.suggestedStopLoss)
     /\ IsZero(result.prediction.adjustedStopLoss)

\* the double x is what rounding leaves of the exact product num/den * y
Ratio(c, den) ==
  LET g == Gcd(Abs(c), den) IN <<c \div g, den \div g>>
IsProduct(x, num, den, y) ==
  Ratio(x.c, x.den) = Ratio(num * y.c, den * y.den)
Below(x, y) == Leq(x, y) /\ ~Leq(y, x)

\* C13: adjustedStopLoss is suggestedStopLoss * 0.85 when volatility is
\* 'high', strictly below it for a positive currentPrice, and is
\* suggestedStopLoss for every other or absent volatility
C13_Volatility ==
  (Succeeded /\ IsNumber(setup.currentPrice)) =>
    LET suggested == result.prediction.suggestedStopLoss
        adjusted == result.prediction.adjustedStopLoss
    IN  IF setup.volatility = "high"
        THEN /\ adjusted.type = "double"
             /\ IsProduct(adjusted.val, 85, 100, suggested.val)
             /\ adjusted.val = Mul(suggested.val, Lit(85, 100))
             /\ setup.currentPrice.val > 0
                  => Below(adjusted.val, suggested.val)
        ELSE adjusted = suggested

\* the volatile setup of the test: price 100, stop 99, adjusted stop 84.15
C13_Witness ==
  /\ Succeeded
  /\ setup.volatility = "high"
  /\ setup.currentPrice = Num(100)
  /\ result.prediction.suggestedStopLoss = Double(Dbl(9900, 100, 0))
  /\ Ratio(result.prediction.adjustedStopLoss.val.c,
           result.prediction.adjustedStopLoss.val.den) = <<1683, 20>>
  /\ Below(result.prediction.adjustedStopLoss.val,
           result.prediction.suggestedStopLoss.val)

\* C14: with accountBalance 10000, maxRiskPercent 1 and currentPrice 100
\* positionSize is a whole number that is not negative; without
\* accountBalance it is null
C14_ScenarioD ==
  Succeeded =>
    /\ (/\ setup.accountBalance = Num(10000)
        /\ setup.maxRiskPercent = Num(1)
        /\ setup.currentPrice = Num(100))
       => /\ result.prediction.positionSize.type = "number"
          /\ result.prediction.positionSize.val \in Nat
    /\ setup.accountBalance = Undefined
       => result.prediction.positionSize = Null

\* the setup of Scenario D got position size 100
C14_Witness ==
  /\ Succeeded
  /\ setup.accountBalance = Num(10000)
  /\ setup.maxRiskPercent = Num(1)
  /\ setup.currentPrice = Num(100)
  /\ result.prediction.positionSize = Num(100)

SameButRisk(a, b) ==
  /\ a # b
  /\ [a EXCEPT !.accountBalance = Undefined, !.maxRiskPercent = Undefined]
       = [b EXCEPT !.accountBalance = Undefined, !.maxRiskPercent = Undefined]

PositivePrice(s) == IsNumber(s.currentPrice) /\ s.currentPrice.val > 0

\* C15: for a positive currentPrice recommendedEntry is currentPrice and
\* suggestedStopLoss is currentPrice * 0.99, and a call whose setup differs
\* from the setup of the call before only in accountBalance or
\* maxRiskPercent returns the same recommendedEntry and suggestedStopLoss
C15_EntryAndStop ==
  [][/\ (Succeeded' /\ PositivePrice(setup')) =>
          /\ result'.prediction.recommendedEntry = setup'.currentPrice
          /\ result'.prediction.suggestedStopLoss.type = "double"
          /\ IsProduct(result'.prediction.suggestedStopLoss.val, 99, 100,
                       Lit(setup'.currentPrice.val, 1))
          /\ result'.prediction.suggestedStopLoss.val
               = Mul(Lit(setup'.currentPrice.val, 1), Lit(99, 100))
     /\ (/\ Succeeded /\ Succeeded'
         /\ PositivePrice(setup') /\ SameButRisk(setup, setup')) =>
          /\ result'.prediction.recommendedEntry
               = result.prediction.recommendedEntry
          /\ result'.prediction.suggestedStopLoss
               = result.prediction.suggestedStopLoss]_vars

\* a setup with maxRiskPercent 2 and price 100 got entry 100 and stop 99
C15_Witness ==
  /\ Succeeded
  /\ setup.maxRiskPercent = Num(2)
  /\ setup.currentPrice = Num(100)
  /\ result.prediction.recommendedEntry = Num(100)
  /\ result.prediction.suggestedStopLoss = Double(Dbl(9900, 100, 0))

Placeholder == [trend |-> "bullish", strength |-> 8]

\* C16: for a non-empty setup.timeframes, timeframeAlignment maps exactly
\* the labels of timeframes, each to {trend: 'bullish', strength: 0.8}; for
\* timeframes absent or empty it is null
C16_Timeframes ==
  Succeeded =>
    IF setup.timeframes.type = "object" /\ setup.timeframes.val # <<>>
    THEN /\ DOMAIN result.prediction.timeframeAlignment
              = { setup.timeframes.val[i] :
                    i \in 1..Len(setup.timeframes.val) }
         /\ \A tf \in DOMAIN result.prediction.timeframeAlignment :
              result.prediction.timeframeAlignment[tf] = Placeholder
    ELSE result.prediction.timeframeAlignment = Null

\* the three timeframes of the test got three placeholder entries
C16_Witness ==
  /\ Succeeded
  /\ setup.timeframes = Timeframes(<<"H1", "H4", "D1">>)
  /\ DOMAIN result.prediction.timeframeAlignment = {"H1", "H4", "D1"}
  /\ result.prediction.timeframeAlignment["D1"] = Placeholder

\* C17: for the history of two Success records of qualityScore 5.0 and 2.0,
\* of the setup's modelType and session and stamped now, and a setup of
\* qualityScore 4.0, confidence is above 0.1 and probability above 0.5
C17_QualityWeighting ==
  (/\ Succeeded /\ Fresh
   /\ setup = WeightSetup
   /\ Len(history) = 2
   /\ { history[i].qualityScore : i \in 1..2 } = {50, 20}
   /\ \A i \in 1..2 : history[i].timestamp = DateAt(now))
  => /\ result.prediction.confidence > 10
     /\ result.prediction.probability > 50

\* the quality score cell holds a text that is no number, or a number
\* outside [0,5]
NonNumeric(text) == text # <<>> /\ ToNumber(text) = NaN
OutOfRange(text) ==
  ToNumber(text).type = "number"
    /\ (ToNumber(text).val < 0 \/ ToNumber(text).val > 50)

SheetRefused ==
  /\ ~sheet.returned
  /\ sheet.alert # NoAlert
  /\ sheet.alert[1] = "Validation Error"
  /\ ~sheet.invoked
  /\ ~sheet.wrote

\* the one message of the form with the words 'Quality Score'
NamesQualityScore(alert) ==
  alert[2] = "Quality Score must be between 0 and 5"

SheetSubmitted == sheet # NoSheet /\ sheet.submitted

\* C18 as stated: handleSubmit returns false with a validation alert, the
\* predictor not invoked and no results written, whenever the model type is
\* empty or the quality score is no number or is outside [0,5]; for a
\* quality score outside [0,5] the alert names 'Quality Score'
C18_FormValidation ==
  (/\ SheetSubmitted
   /\ \/ sheet.cells.modelType = ""
      \/ NonNumeric(sheet.cells.qualityScore)
      \/ OutOfRange(sheet.cells.qualityScore))
  => /\ SheetRefused
     /\ OutOfRange(sheet.cells.qualityScore) => NamesQualityScore(sheet.alert)

\* C18, amended: as stated, but the alert names 'Quality Score' for a
\* quality score outside [0,5] when model type and session are filled in;
\* otherwise it names the first of the two that is empty
C18_FormValidationInOrder ==
  (/\ SheetSubmitted
   /\ \/ sheet.cells.modelType = ""
      \/ NonNumeric(sheet.cells.qualityScore)
      \/ OutOfRange(sheet.cells.qualityScore))
  => /\ SheetRefused
     /\ OutOfRange(sheet.cells.qualityScore) =>
          IF sheet.cells.modelType = ""
          THEN sheet.alert[2] = "Model Type is required"
          ELSE IF sheet.cells.session = ""
          THEN sheet.alert[2] = "Session is required"
          ELSE NamesQualityScore(sheet.alert)

\* the form of the test with quality score 6 was refused with the alert
\* about the quality score
C18_Witness ==
  /\ SheetSubmitted
  /\ sheet.cells.modelType = "FVG-RD" /\ sheet.cells.session = "London"
  /\ sheet.cells.qualityScore = <<"6">>
  /\ sheet.cells.currentPrice = <<"1", "0", "0">>
  /\ sheet.alert = <<"Validation Error",
                     "Quality Score must be between 0 and 5">>
  /\ ~sheet.returned /\ ~sheet.invoked

PageSubmitted == page # NoPage /\ page.submitted
InRange(text, low, high) ==
  ToNumber(text).type = "number"
    /\ ToNumber(text).val >= low /\ ToNumber(text).val <= high

\* C19: with a model type, a quality score in [0,5], a price above 0 and
\* the volatility field empty, handleSubmit calls event.preventDefault and
\* then predictTradeSetup
C19_SubmitsValid ==
  (/\ PageSubmitted
   /\ page.values.modelType # ""
   /\ page.values.qualityScore # <<>>
   /\ InRange(page.values.qualityScore, 0, 50)
   /\ ToNumber(page.values.currentPrice).type = "number"
   /\ ToNumber(page.values.currentPrice).val > 0
   /\ page.values.volatility = "")
  => page.calls = <<"preventDefault", "predictTradeSetup">>

\* C20: handleSubmit always calls event.preventDefault first, and does not
\* call predictTradeSetup when the model type is empty, the quality score is
\* no number or outside [0,5], or the price is no number or not above 0
C20_NoSubmitWhenInvalid ==
  PageSubmitted =>
    /\ Head(page.calls) = "preventDefault"
    /\ (\/ page.values.modelType = ""
        \/ ~InRange(page.values.qualityScore, 0, 50)
        \/ ToNumber(page.values.currentPrice).type # "number"
        \/ ToNumber(page.values.currentPrice).val <= 0)
       => \A i \in 1..Len(page.calls) : page.calls[i] # "predictTradeSetup"

\* a submit with quality score 6 and every other field valid made no call to
\* the server
C20_Witness ==
  /\ PageSubmitted
  /\ page.values.modelType = "FVG-RD"
  /\ page.values.qualityScore = <<"6">>
  /\ page.values.currentPrice = <<"1", "0", "0">>
  /\ page.values.volatility = "low"
  /\ page.calls = <<"preventDefault">>
  /\ page.error["qualityScore"]

\* C21: validation comes first: for an invalid setup nothing else runs and
\* the error is returned, for a valid one the steps are validate, fetch the
\* history, select, score, in that order
C21_ValidationFirst ==
  Returned =>
    IF ~ValidBySpec(setup)
    THEN /\ steps = <<"_validateSetup">>
         /\ similarTrades = <<>>
         /\ result = [success |-> FALSE, message |-> "Invalid setup data"]
    ELSE steps = <<"_validateSetup", "getPredictionHistory",
                   "_findSimilarTrades", "_calculateProbability">>

\* the empty setup was refused over a history of two or more records, after
\* validation alone
C21_Witness ==
  /\ Returned /\ ~result.success
  /\ setup = EmptySetup
  /\ Len(history) >= 2 /\ ~changed
  /\ steps = <<"_validateSetup">>

\* what a call returns for a setup, a history and the clock alone
Stateless(s, h) ==
  IF ~_validateSetup(s)
  THEN [success |-> FALSE, message |-> "Invalid setup data"]
  ELSE Predicted(s, _calculateProbability(_findSimilarTrades(s, h)),
                 _calculateStopLoss(s))

\* C22: predict writes nothing it reads: only the journaling collaborator
\* changes the history, a call leaves every record and the setup as they
\* were, and what a call returns is determined by its setup, the history and
\* the clock, not by anything an earlier call left behind
C22_ReadOnly ==
  /\ [][~changed' => history' = history]_vars
  /\ [](Returned => setup \in ScoreSetups)
  /\ []((Returned /\ Fresh) => result = Stateless(setup, history))

\* a second call in a row over two or more matched records, one of them
\* with a timestamp
C22_Witness ==
  /\ Succeeded /\ Fresh
  /\ prev # NoResult
  /\ Len(similarTrades) >= 2
  /\ ~Untimed(similarTrades)
  /\ \A i \in 1..Len(history) : DOMAIN history[i] = DOMAIN Trade("", "", 0, "")

\* sub is seq with some of its elements left out
RECURSIVE IsSubsequence(_, _)
IsSubsequence(sub, seq) ==
  IF sub = <<>> THEN TRUE
  ELSE IF seq = <<>> THEN FALSE
  ELSE IF Head(sub) = Head(seq) THEN IsSubsequence(Tail(sub), Tail(seq))
  ELSE IsSubsequence(sub, Tail(seq))

\* C23: select returns at most 5 records, a subsequence of the history in
\* history order, each of the setup's modelType and session and with a
\* qualityScore within 0.5 of the setup's
C23_SelectBounded ==
  (Succeeded /\ ~changed) =>
    /\ Len(similarTrades) <= 5
    /\ IsSubsequence(similarTrades, history)
    /\ \A i \in 1..Len(similarTrades) :
         MatchBySpec(similarTrades[i], setup, 5)

\* five records selected out of a history in which six match, and five
\* selected by the broad filter out of six records
C23_Witness ==
  /\ Succeeded /\ ~changed
  /\ Len(similarTrades) = 5
  /\ Len(history) >= 6
  /\ \A i \in 1..6 : MatchBySpec(history[i], setup, 5)

\* C27: when the history holds a record that meets the exact criteria
\* (tolerance 0.2) for the setup, the selected records hold one too
C27_ExactKept ==
  (/\ Succeeded /\ ~changed
   /\ \E i \in 1..Len(history) : MatchBySpec(history[i], setup, 2))
  => \E i \in 1..Len(similarTrades) : MatchBySpec(similarTrades[i], setup, 2)

\* the confidence of a matched set
Confidence(trades) == _calculateProbability(trades).confidence

\* the matched set with record i given another qualityScore, or a timestamp
\* further back
WithQuality(trades, i, q) == [trades EXCEPT ![i].qualityScore = q]
Aged(trades, i, days) ==
  [trades EXCEPT ![i].timestamp = DateAt(trades[i].timestamp.val - days)]

\* C24: for a matched set, a higher qualityScore of one record never lowers
\* the confidence and a greater age of one record never raises it
C24_Monotone ==
  (Succeeded /\ Fresh /\ similarTrades # <<>>) =>
    \A i \in 1..Len(similarTrades) :
      /\ \A q \in similarTrades[i].qualityScore..50 :
           Confidence(WithQuality(similarTrades, i, q))
             >= result.prediction.confidence
      /\ Truthy(similarTrades[i].timestamp) =>
           \A days \in 0..TickDays :
             Confidence(Aged(similarTrades, i, days))
               <= result.prediction.confidence

\* a matched set whose confidence rises with the quality of one record and
\* falls when one record is a day older
C24_Witness ==
  /\ Succeeded /\ Fresh
  /\ Len(similarTrades) >= 2
  /\ \E i \in 1..Len(similarTrades) :
       Confidence(WithQuality(similarTrades, i, 50))
         > result.prediction.confidence
  /\ \E i \in 1..Len(similarTrades) :
       /\ Truthy(similarTrades[i].timestamp)
       /\ Confidence(Aged(similarTrades, i, 1)) < result.prediction.confidence

\* avgQuality of _calculateProbability
AvgQuality(trades) == DivInt(SumWeights(trades, Lit(0, 1)), Len(trades))

SameKey(a, b) ==
  /\ a.modelType = b.modelType
  /\ a.session = b.session
  /\ a.qualityScore = b.qualityScore

\* the outputs computed from the setup's price, volatility, risk parameters
\* and timeframes
PriceOutputs(prediction) ==
  <<prediction.recommendedEntry, prediction.suggestedStopLoss,
    prediction.adjustedStopLoss, prediction.positionSize,
    prediction.timeframeAlignment>>

\* C28: a call on the same history at the same time as the call before, with
\* a setup of the same modelType, session and qualityScore, returns the same
\* probability and confidence whatever the other fields; and a call with
\* the setup of the call before returns the same entry, stops, position size
\* and timeframe alignment whatever the history has become
C28_NoInterference ==
  [][/\ (/\ Succeeded /\ Succeeded' /\ ~changed /\ ~ticked
         /\ SameKey(setup, setup')) =>
          /\ result'.prediction.probability = result.prediction.probability
          /\ result'.prediction.confidence = result.prediction.confidence
     /\ (Succeeded /\ Succeeded' /\ setup' = setup) =>
          PriceOutputs(result'.prediction) = PriceOutputs(result.prediction)
    ]_vars

\* a setup of high volatility with price and risk parameters got, over two
\* matched records, the confidence of the bare setup and the position size
\* it gets on an empty history
C28_Witness ==
  /\ Succeeded /\ Fresh
  /\ Len(similarTrades) = 2
  /\ setup.volatility = "high"
  /\ setup.currentPrice = Num(100)
  /\ setup.maxRiskPercent = Num(2)
  /\ result.prediction.confidence
       = Stateless(WeightSetup, history).prediction.confidence
  /\ result.prediction.confidence > 10
  /\ result.prediction.positionSize
       = Stateless(setup, <<>>).prediction.positionSize
  /\ IsNumber(result.prediction.positionSize)

\* C29: a submission that passed validateForm sends a setup that
\* _validateSetup accepts, and is never answered 'Invalid setup data'
C29_ClientValidatedAccepted ==
  (page # NoPage /\ page.request.sent) =>
    /\ _validateSetup(SetupOfPage(page.request.formData))
    /\ page.response # NoResponse =>
         /\ page.response.success
         /\ page.globalError # "Invalid setup data"

\* C25: predictSetup always returns an object with a boolean success, a
\* prediction exactly when success is true and a message exactly when it is
\* false, whatever the argument and the entries of the history
C25_NeverThrows ==
  result # NoResult =>
    /\ "success" \in DOMAIN result
    /\ result.success \in BOOLEAN
    /\ ("prediction" \in DOMAIN result) <=> result.success
    /\ ("message" \in DOMAIN result) <=> ~result.success

\* a valid setup over a history with a null entry got the message of the
\* TypeError
C25_Witness ==
  /\ result = [success |-> FALSE, message |-> "TypeError"]
  /\ ~changed
  /\ _validateSetup(setup)
  /\ \E i \in 1..Len(history) : history[i] = Null
  /\ \E i \in 1..Len(history) : history[i] = EmptyEntry

\* the first non-empty result among the Data Entry rows dated, by a Date
\* cell, on the day of a tracking row; "" when there is none
FirstRecorded(row, dataEntryRows) ==
  LET day == row.tradeDate.val
      Hit(i) ==
        /\ dataEntryRows[i].tradeDate = DateAt(day)
        /\ dataEntryRows[i].result # ""
      hits == { i \in 1..Len(dataEntryRows) : Hit(i) }
  IN  IF hits = {} THEN ""
      ELSE dataEntryRows[CHOOSE i \in hits : \A j \in hits : i <= j].result

\* C30: updateTradeResults fills the result cell only of tracking rows where
\* it is empty, with the first result recorded for the row's trade date; it
\* leaves every row that has a result, and every other cell, as it was; and
\* a second run over an unchanged Data Entry sheet changes nothing
C30_WriteOnce ==
  [][book'.ran =>
       /\ book'.dataEntry = book.dataEntry
       /\ Len(book'.tracking) = Len(book.tracking)
       /\ \A i \in 1..Len(book.tracking) :
            /\ book'.tracking[i].tradeDate = book.tracking[i].tradeDate
            /\ book.tracking[i].result # "" =>
                 book'.tracking[i] = book.tracking[i]
            /\ book'.tracking[i].result # book.tracking[i].result =>
                 book'.tracking[i].result
                   = FirstRecorded(book.tracking[i], book.dataEntry)
       /\ book.ran => book'.tracking = book.tracking]_vars

\* after a run that updated nothing, one row keeps a result that is no
\* longer the first recorded for its date and another is still empty
C30_Witness ==
  /\ book.ran /\ book.updatedCount = 0
  /\ \E i \in 1..Len(book.tracking) :
       /\ book.tracking[i].result # ""
       /\ FirstRecorded(book.tracking[i], book.dataEntry)
            \notin {"", book.tracking[i].result}
  /\ \E i \in 1..Len(book.tracking) :
       /\ book.tracking[i].result = ""
       /\ FirstRecorded(book.tracking[i], book.dataEntry) = ""

=============================================================================
